---- MODULE Spec2Model ----
(***************************************************************************)
(* The freehand drawing canvas of src/components/DrawingCanvas.tsx as a    *)
(* state machine: the raster surface, the undo/redo history, the gesture   *)
(* refs, the last-exported ref, the output callback, and the image loads   *)
(* (FileReader.onload, Image.onload) that are in flight between handlers.  *)
(*                                                                         *)
(* Abstractions.  The raster surface is a row of nCells cells (the         *)
(* resolution at which a behaviour samples the picture); a cell holds      *)
(*   -1  transparent (a canvas whose width/height attribute just changed), *)
(*    0  the background colour #ffffff,                                    *)
(*    1, 4  opaque ink of a brush colour, painted or decoded at its size,  *)
(*    2  ink that was resampled by a fit at another size,                  *)
(*    3  a deposit made with opacity below 1.0 or with a shadow blur.      *)
(* Opacity is kept in tenths (globalAlpha 0.7 is 7) and blur in halves     *)
(* (shadowBlur 0.5 is 1).                                                  *)
(* Pointer coordinates are kept doubled (cell c is at 2*c) so that the     *)
(* midpoints (a+b)/2 of the smoothing code stay integers.                  *)
(* A string is [pre, img]: pre counts the leading "data:...;base64,"       *)
(* prefixes, img is the encoded picture; pre = -1 is null.                 *)
(***************************************************************************)
EXTENDS Integers, Sequences, FiniteSets, Bags, TLC

\* ------------------------------------------------------------------ bounds
MaxPending == 1      \* image loads / file reads in flight at once
MaxHist == 2         \* history entries kept before recording is held back

NormalSize == 1                  \* the fixed 512x512 backing store (line 70)
FullSizes  == {2}                \* window-derived fullscreen sizes (line 67)
ForeignSize == 0                 \* the size of an image that is not a snapshot
ToolType == {"pen", "eraser", "line", "rectangle", "circle", "triangle"}
BrushStyle == {"solid", "pencil", "watercolor", "water"}
BrushShape == {"round", "square", "diamond"}

VARIABLES
  nCells,          \* cells the surface is sampled at (fixed in a behaviour)
  allowDrawing,    \* prop (line 7)
  initialImage,    \* prop (line 8)
  brushColor,      \* useState (line 20)
  brushSize,       \* useState (line 21)
  tool,            \* useState (line 22)
  brushStyle,      \* useState (line 23)
  smoothing,       \* useState (line 24)
  brushShape,      \* useState (line 25)
  isFullScreen,    \* useState (line 28)
  canvasSize,      \* useState (line 29)
  surface,         \* the canvas element's backing store: [size, pic]
  ctx,             \* the drawing state of the canvas's 2d context
  isDrawing,       \* useState (line 18)
  lastPointRef,    \* useRef (line 36)
  lastMidPointRef, \* useRef (line 37)
  startPointRef,   \* useRef (line 38)
  snapshotRef,     \* useRef (line 39)
  history,         \* useState (line 32)
  historyStep,     \* useState (line 33), 0-based as in the source
  lastExportedRef, \* useRef (line 40)
  pending,         \* bag of callbacks in flight (reader.onload, img.onload)
  calls,           \* onImageChange invocations made by the latest step
  lastOut,         \* the value most recently passed to onImageChange
  ev,              \* the handler or callback that ran in the latest step
  script           \* position in the undo/redo round-trip scenario (SpecSeq)

vars == <<nCells, allowDrawing, initialImage, brushColor, brushSize, tool,
          brushStyle, smoothing, brushShape, isFullScreen, canvasSize,
          surface, ctx, isDrawing, lastPointRef, lastMidPointRef, startPointRef,
          snapshotRef, history, historyStep, lastExportedRef, pending, calls,
          lastOut, ev, script>>

\* ------------------------------------------------------------ pictures
Min(a, b) == IF a <= b THEN a ELSE b
Max(a, b) == IF a >= b THEN a ELSE b

Cells == 1 .. nCells
BlankPic == [c \in Cells |-> 0]
ClearedPic == [c \in Cells |-> -1]
NoPic == <<>>

\* ctx.fillStyle = '#ffffff'; ctx.fillRect(0, 0, canvas.width, canvas.height)
FillWhite(surf) == [size |-> surf.size, pic |-> BlankPic]

Blank(size) == [size |-> size, pic |-> BlankPic]

\* React writes the canvas width/height attributes; the browser resets the
\* backing store to transparent when they change.
ResizeCanvas(surf, size) ==
  IF size = surf.size THEN surf ELSE [size |-> size, pic |-> ClearedPic]

NullPt == -1
NullSnap == [size |-> -1, pic |-> NoPic]
Pt(c) == 2 * c

\* Cells touched by a stroked straight segment between (doubled) points u, v.
SegCells(u, v) == {c \in Cells : Min(u, v) - 1 <= 2 * c /\ 2 * c <= Max(u, v) + 1}

\* Cells touched by the quadratic curve from m0 to m1 with control point cp
\* (ctx.quadraticCurveTo): the hull of the end points, extended to the
\* curve's turning point m0 + a*a/(a+b) when cp lies outside [m0, m1].
CurveCells(m0, cp, m1) ==
  LET a == cp - m0
      b == cp - m1
  IN  {c \in Cells :
         \/ c \in SegCells(m0, m1)
         \/ /\ a > 0 /\ b > 0
            /\ 2 * c >= Min(m0, m1) - 1
            /\ (2 * c - 1 - m0) * (a + b) <= a * a
         \/ /\ a < 0 /\ b < 0
            /\ 2 * c <= Max(m0, m1) + 1
            /\ (2 * c + 1 - m0) * (a + b) <= a * a}

Paint(pic, cells, v) == [c \in Cells |-> IF c \in cells THEN v ELSE pic[c]]

\* Colours: '#ffffff', the default brush colour '#D32F2F' and '#000000' (a
\* preset, and the initial strokeStyle/fillStyle of a 2d context).
White == 0
Red == 1
Black == 4
BrushColors == {Red, Black}
BrushSizes == {4, 8}
Soft == 3
NoColor == -1

\* The drawing state of a fresh 2d context.
DefaultCtx ==
  [globalAlpha |-> 10, shadowBlur |-> 0, shadowColor |-> NoColor,
   strokeStyle |-> Black, fillStyle |-> Black,
   lineWidth |-> 1, lineCap |-> "butt", lineJoin |-> "miter"]

\* A pixel covered by a stroke or fill of the given colour: the colour itself
\* at full opacity without blur, a blend with what was there otherwise.
Deposit(color, c) ==
  IF c.globalAlpha = 10 /\ c.shadowBlur = 0 THEN color ELSE Soft

\* ctx.fillRect(0, 0, canvas.width, canvas.height) with the context as it is.
FillRect(surf, c) ==
  [size |-> surf.size, pic |-> [k \in Cells |-> Deposit(c.fillStyle, c)]]

\* The same change of the width/height attributes resets the context.
ResizeCtx(c, surf, size) == IF size = surf.size THEN c ELSE DefaultCtx

\* setupContextForStyle: the eraser paints '#ffffff', every other tool the
\* brush colour.
InkOf(t) == IF t = "eraser" THEN White ELSE brushColor

\* Variant: the watercolor blur fixed instead of following the brush size.
styleSwitch_FixedBlur(d) ==
  CASE brushStyle = "solid" ->
         [d EXCEPT !.globalAlpha = 10, !.shadowBlur = 0]
    [] brushStyle = "pencil" ->
         [d EXCEPT !.globalAlpha = 7, !.shadowBlur = 1,
                   !.shadowColor = brushColor]
    [] brushStyle = "watercolor" ->
         [d EXCEPT !.globalAlpha = 4, !.shadowBlur = 4,
                   !.shadowColor = brushColor]
    [] brushStyle = "water" ->
         [d EXCEPT !.globalAlpha = 9, !.shadowBlur = 2,
                   !.shadowColor = brushColor]

\* switch (brushStyle), lines 209-229.
styleSwitch(d) ==
  CASE brushStyle = "solid" ->
         [d EXCEPT !.globalAlpha = 10, !.shadowBlur = 0]
    [] brushStyle = "pencil" ->
         [d EXCEPT !.globalAlpha = 7, !.shadowBlur = 1,
                   !.shadowColor = brushColor]
    [] brushStyle = "watercolor" ->
         [d EXCEPT !.globalAlpha = 4, !.shadowBlur = brushSize,
                   !.shadowColor = brushColor]
    [] brushStyle = "water" ->
         [d EXCEPT !.globalAlpha = 9, !.shadowBlur = 2,
                   !.shadowColor = brushColor]

\* Variant: the eraser branch sets the colours but not opacity and blur.
setupContextForStyle_KeepAlpha(c) ==
  IF tool = "eraser"
  THEN [c EXCEPT !.strokeStyle = White, !.fillStyle = White]
  ELSE LET d == [c EXCEPT !.strokeStyle = brushColor, !.fillStyle = brushColor]
       IN  CASE brushStyle = "solid" ->
                  [d EXCEPT !.globalAlpha = 10, !.shadowBlur = 0]
             [] brushStyle = "pencil" ->
                  [d EXCEPT !.globalAlpha = 7, !.shadowBlur = 1,
                            !.shadowColor = brushColor]
             [] brushStyle = "watercolor" ->
                  [d EXCEPT !.globalAlpha = 4, !.shadowBlur = brushSize,
                            !.shadowColor = brushColor]
             [] brushStyle = "water" ->
                  [d EXCEPT !.globalAlpha = 9, !.shadowBlur = 2,
                            !.shadowColor = brushColor]

\* setupContextForStyle, lines 197-230.
setupContextForStyle(c) ==
  IF tool = "eraser"
  THEN [c EXCEPT !.globalAlpha = 10, !.shadowBlur = 0,
                 !.strokeStyle = White, !.fillStyle = White]
  ELSE styleSwitch([c EXCEPT !.strokeStyle = brushColor,
                             !.fillStyle = brushColor])

\* ctx.lineWidth, ctx.lineCap and ctx.lineJoin as startDrawing (lines
\* 264-266) and the shape preview (lines 382-384) set them (corner "miter"),
\* and as the pen branch of draw sets them (lines 333-335, corner "bevel").
WithLine(c, corner) ==
  [c EXCEPT !.lineWidth = brushSize,
            !.lineCap = IF brushShape = "square" THEN "square" ELSE "round",
            !.lineJoin = IF brushShape = "square" THEN corner ELSE "round"]

\* ------------------------------------------------------------- strings
Null == [pre |-> -1, img |-> NullSnap]
Str(pre, img) == [pre |-> pre, img |-> img]
Garbage == [size |-> -2, pic |-> NoPic]

\* canvas.toDataURL('image/png')
ToDataURL(surf) == Str(1, surf)
\* dataUrl.split(',')[1]
Base64Of(url) == Str(url.pre - 1, url.img)
\* `data:image/png;base64,${s}`
WithPrefix(s) == Str(s.pre + 1, s.img)
\* s.startsWith('data:')
StartsWithData(s) == s.pre >= 1
\* JavaScript truthiness of a string-or-null
Truthy(s) == s # Null

\* img.onload fires only for a well-formed data URL of a decodable image.
Decodable(src) == src.pre = 1 /\ src.img.size >= 0

\* fitAndDrawNewImage, lines 128-140: white fill, then the image drawn at
\* scale min(W/w, H/h), centred.  At equal sizes the scale is 1 and opaque
\* pixels are copied; otherwise ink is resampled.  Transparent source pixels
\* leave the white fill.
Resampled == 2
FitPixel(v, same) == IF v <= 0 THEN 0 ELSE IF same THEN v ELSE Resampled
FitAndDraw(img, size) ==
  [size |-> size,
   pic  |-> [c \in Cells |-> FitPixel(img.pic[c], img.size = size)]]

\* Variant: the larger of the two ratios (cover instead of fit).
FitScale_Cover(w, h, W, H) == IF W * h <= H * w THEN <<H, h>> ELSE <<W, w>>

\* The placement of lines 136-140 in exact arithmetic, for a source of
\* w x h on a surface of W x H (all positive).  The scale is the fraction
\* sn / sd = Math.min(W / w, H / h); the drawn size is (dw / sd, dh / sd) =
\* (w * scale, h * scale); the offset is (x / (2 sd), y / (2 sd)) =
\* (W / 2 - (w / 2) * scale, H / 2 - (h / 2) * scale).
FitScale(w, h, W, H) == IF W * h <= H * w THEN <<W, w>> ELSE <<H, h>>

FitPlace(w, h, W, H) ==
  LET sn == FitScale(w, h, W, H)[1]
      sd == FitScale(w, h, W, H)[2]
  IN  [sn |-> sn, sd |-> sd,
       dw |-> w * sn, dh |-> h * sn,
       x  |-> W * sd - w * sn, y |-> H * sd - h * sn]

\* An uploaded or parent-supplied picture that is not one of the component's
\* own snapshots, and the files a user can pick.
ExtImg == [size |-> ForeignSize, pic |-> [c \in Cells |-> IF c = 1 THEN 1 ELSE 0]]
Files == {ExtImg, Garbage}
PropImages == {Str(0, ExtImg), Str(1, ExtImg), Str(0, Garbage)}

\* ---------------------------------------------------- callbacks in flight
\* A callback in flight closes over the render in which its handler ran, and
\* with it over that render's history and historyStep, which saveToHistory
\* reads when the callback finally runs.  saveToHistory reads them only as
\* history.slice(0, historyStep + 1), so the task keeps that slice (`hist`,
\* historyStep being Len(hist) - 1).  A load started with recordHistory =
\* false never reads them.
Task(kind, src, rec, h, s) ==
  [kind |-> kind, src |-> src, rec |-> rec,
   hist |-> IF rec THEN SubSeq(h, 1, s + 1) ELSE <<>>]

CanSpawnIn(p) == BagCardinality(pending) < p
CanSpawn == CanSpawnIn(MaxPending)
\* Recording on top of cursor s yields s + 2 entries.
CanRecordIn(h, s) == s + 2 <= h
CanRecord(s) == CanRecordIn(MaxHist, s)
Spawn(t) == pending' = pending (+) SetToBag({t})
Tasks == BagToSet(pending)

\* fitAndDrawNewImage(src, recordHistory), lines 120-121 and 150: creates the
\* Image and sets img.src; everything else happens in img.onload.
fitAndDrawNewImage(src, rec) ==
  Spawn(Task("decode", src, rec, history, historyStep))

\* ------------------------------------------------------- export, history
ExportedValue(surf) == Base64Of(ToDataURL(surf))

\* Variant: the export handed to the callback without updating the tracking
\* ref of line 444.
exportImage_Untracked(surf) ==
  /\ UNCHANGED lastExportedRef
  /\ calls' = <<ExportedValue(surf)>>
  /\ lastOut' = ExportedValue(surf)

exportImage(surf) ==
  /\ lastExportedRef' = ExportedValue(surf)
  /\ calls' = <<ExportedValue(surf)>>
  /\ lastOut' = ExportedValue(surf)

NewHistory(h, s, surf) == Append(SubSeq(h, 1, s + 1), ToDataURL(surf))

\* Variant: the cursor set to newHistory.length instead of length - 1.
saveToHistory_StepOff(h, s, surf) ==
  /\ history' = NewHistory(h, s, surf)
  /\ historyStep' = Len(NewHistory(h, s, surf))

saveToHistory(h, s, surf) ==
  /\ history' = NewHistory(h, s, surf)
  /\ historyStep' = Len(NewHistory(h, s, surf)) - 1

\* ------------------------------------------------------------- gestures
ShapeCells(t, sx, x) ==
  LET w == x - sx IN SegCells(sx, sx + w)

gestureRefs == <<lastPointRef, lastMidPointRef, startPointRef, snapshotRef>>
brush == <<brushColor, brushSize, brushStyle, brushShape>>
config == <<nCells, allowDrawing, initialImage, tool, smoothing, isFullScreen,
            canvasSize, brush>>
exported == <<lastExportedRef, lastOut>>
hist == <<history, historyStep>>

\* Variant: the context prepared, but no mark made at the pointer-down point.
initialDot_Missing(x) ==
  /\ ctx' = WithLine(setupContextForStyle(ctx), "miter")
  /\ UNCHANGED surface

\* "Initial dot/shape", lines 254-269: one diamond stamp, or a zero-length
\* stroke with a round or square cap.
initialDot(x) ==
  LET c == setupContextForStyle(ctx)
      d == WithLine(c, "miter")
  IN  IF brushShape = "diamond" /\ tool = "pen"
      THEN \* drawDiamondStamp(ctx, x, y, brushSize, brushColor)
           /\ surface' = [surface EXCEPT
                 !.pic = Paint(@, SegCells(x, x), Deposit(brushColor, c))]
           /\ ctx' = c
      ELSE /\ surface' = [surface EXCEPT
                 !.pic = Paint(@, SegCells(x, x), Deposit(d.strokeStyle, d))]
           /\ ctx' = d

\* Variant: the allowDrawing guard of line 233 left out.
startDrawing_Unguarded(x) ==
  /\ isDrawing' = TRUE
  /\ lastPointRef' = x
  /\ lastMidPointRef' = x
  /\ startPointRef' = x
  /\ LET d == WithLine(setupContextForStyle(ctx), "miter")
     IN  /\ surface' = [surface EXCEPT
                          !.pic = Paint(@, SegCells(x, x),
                                        Deposit(d.strokeStyle, d))]
         /\ ctx' = d
  /\ calls' = <<>>
  /\ UNCHANGED <<config, snapshotRef, hist, exported, pending>>

startDrawing(x) ==
  IF ~allowDrawing
  THEN /\ calls' = <<>>
       /\ UNCHANGED <<config, ctx, surface, isDrawing, gestureRefs, hist,
                      exported, pending>>
  ELSE /\ isDrawing' = TRUE
       /\ lastPointRef' = x
       /\ lastMidPointRef' = x
       /\ startPointRef' = x
       /\ IF tool \in {"pen", "eraser"}
          THEN /\ initialDot(x)
               /\ UNCHANGED snapshotRef
          ELSE /\ snapshotRef' = surface
               /\ UNCHANGED <<surface, ctx>>
       /\ calls' = <<>>
       /\ UNCHANGED <<config, hist, exported, pending>>

drawPen(x) ==
  LET c == setupContextForStyle(ctx)
      currentColor == InkOf(tool)
      stamping == brushShape = "diamond" /\ tool = "pen"
      \* the diamond branch stamps with fillRect inside save/restore and
      \* returns before the line attributes are set
      d == IF stamping THEN c ELSE WithLine(c, "bevel")
      ink == Deposit(IF stamping THEN currentColor ELSE d.strokeStyle, d)
  IN  /\ ctx' = d
      /\ IF smoothing
         THEN IF lastPointRef # NullPt /\ lastMidPointRef # NullPt
              THEN LET midPoint == (lastPointRef + x) \div 2
                   IN  /\ surface' = [surface EXCEPT
                             !.pic = Paint(@, CurveCells(lastMidPointRef,
                                                         lastPointRef,
                                                         midPoint), ink)]
                       /\ lastPointRef' = x
                       /\ lastMidPointRef' = midPoint
              ELSE UNCHANGED <<surface, lastPointRef, lastMidPointRef>>
         ELSE LET from == IF lastPointRef # NullPt THEN lastPointRef ELSE x
              IN  /\ surface' = [surface EXCEPT
                        !.pic = Paint(@, SegCells(from, x), ink)]
                  /\ lastPointRef' = x
                  /\ lastMidPointRef' = x

\* Variant: the preview drawn without restoring the pre-gesture snapshot.
drawShape_NoRestore(x) ==
  IF snapshotRef = NullSnap \/ startPointRef = NullPt
  THEN UNCHANGED <<surface, ctx, lastPointRef, lastMidPointRef>>
  ELSE LET d == WithLine(setupContextForStyle(ctx), "miter")
       IN  /\ surface' = [size |-> surface.size,
                          pic  |-> Paint(surface.pic,
                                         ShapeCells(tool, startPointRef, x),
                                         Deposit(d.strokeStyle, d))]
           /\ ctx' = d
           /\ UNCHANGED <<lastPointRef, lastMidPointRef>>

drawShape(x) ==
  IF snapshotRef = NullSnap \/ startPointRef = NullPt
  THEN UNCHANGED <<surface, ctx, lastPointRef, lastMidPointRef>>
  ELSE \* ctx.putImageData(snapshotRef.current, 0, 0), then one primitive
       LET d == WithLine(setupContextForStyle(ctx), "miter")
       IN  /\ surface' = [size |-> surface.size,
                          pic  |-> Paint(snapshotRef.pic,
                                         ShapeCells(tool, startPointRef, x),
                                         Deposit(d.strokeStyle, d))]
           /\ ctx' = d
           /\ UNCHANGED <<lastPointRef, lastMidPointRef>>

draw(x) ==
  IF ~isDrawing \/ ~allowDrawing
  THEN /\ calls' = <<>>
       /\ UNCHANGED <<config, ctx, surface, isDrawing, gestureRefs, hist,
                      exported, pending>>
  ELSE /\ IF tool \in {"pen", "eraser"} THEN drawPen(x) ELSE drawShape(x)
       /\ calls' = <<>>
       /\ UNCHANGED <<config, isDrawing, startPointRef, snapshotRef, hist,
                      exported, pending>>

\* Variant: the context left as the gesture's last paint set it.
resetContext_Skipped(c) == c

\* "Reset context properties to default for safety", lines 414-415.
resetContext(c) == [c EXCEPT !.globalAlpha = 10, !.shadowBlur = 0]

\* Variant: the snapshot of a shape gesture kept after the gesture.
clearGesture_KeepSnapshot ==
  /\ lastPointRef' = NullPt
  /\ lastMidPointRef' = NullPt
  /\ startPointRef' = NullPt
  /\ UNCHANGED snapshotRef

\* The four refs set to null at the end of stopDrawing, lines 421-424.
clearGesture ==
  /\ lastPointRef' = NullPt
  /\ lastMidPointRef' = NullPt
  /\ startPointRef' = NullPt
  /\ snapshotRef' = NullSnap

\* Variant: the gesture ends and exports without the saveToHistory call.
stopDrawing_NoRecord ==
  IF isDrawing
  THEN /\ isDrawing' = FALSE
       /\ ctx' = [ctx EXCEPT !.globalAlpha = 10, !.shadowBlur = 0]
       /\ exportImage(surface)
       /\ lastPointRef' = NullPt
       /\ lastMidPointRef' = NullPt
       /\ startPointRef' = NullPt
       /\ snapshotRef' = NullSnap
       /\ UNCHANGED <<config, surface, pending, hist>>
  ELSE /\ calls' = <<>>
       /\ UNCHANGED <<config, ctx, surface, isDrawing, gestureRefs, hist,
                      exported, pending>>

stopDrawing ==
  IF isDrawing
  THEN /\ isDrawing' = FALSE
       /\ ctx' = resetContext(ctx)
       /\ exportImage(surface)
       /\ saveToHistory(history, historyStep, surface)
       /\ clearGesture
       /\ UNCHANGED <<config, surface, pending>>
  ELSE /\ calls' = <<>>
       /\ UNCHANGED <<config, ctx, surface, isDrawing, gestureRefs, hist,
                      exported, pending>>

\* ------------------------------------------------------ upload, callbacks
\* handleUpload, lines 428-438: no file chosen is a return; otherwise the
\* file is read in the background and reader.onload fires later.
handleUpload(file) ==
  /\ Spawn(Task("read", Str(1, file), TRUE, history, historyStep))
  /\ calls' = <<>>
  /\ UNCHANGED <<config, ctx, surface, isDrawing, gestureRefs, hist, exported>>

handleUploadNoFile ==
  /\ calls' = <<>>
  /\ UNCHANGED <<config, ctx, surface, isDrawing, gestureRefs, hist, exported,
                 pending>>

\* reader.onload, lines 433-436: fitAndDrawNewImage(result, true) of the
\* render in which handleUpload ran.
readerOnload(t) ==
  /\ pending' = (pending (-) SetToBag({t}))
                  (+) SetToBag({[t EXCEPT !.kind = "decode"]})
  /\ calls' = <<>>
  /\ UNCHANGED <<config, ctx, surface, isDrawing, gestureRefs, hist, exported>>

\* Variant: the load callback paints but leaves out the exportImage call.
imgOnload_NoExport(t) ==
  LET drawn == FitAndDraw(t.src.img, surface.size)
  IN  /\ surface' = drawn
      /\ ctx' = [ctx EXCEPT !.globalAlpha = 10, !.shadowBlur = 0,
                            !.fillStyle = White]
      /\ calls' = <<>>
      /\ IF t.rec
         THEN saveToHistory(t.hist, Len(t.hist) - 1, drawn)
         ELSE UNCHANGED hist
      /\ pending' = pending (-) SetToBag({t})
      /\ UNCHANGED <<config, isDrawing, gestureRefs, exported>>

\* img.onload, lines 122-149.  exportImage and saveToHistory are those of
\* the render that started the load: saveToHistory reads the captured slice.
imgOnload(t) ==
  LET drawn == FitAndDraw(t.src.img, surface.size)
  IN  /\ surface' = drawn
      /\ ctx' = [ctx EXCEPT !.globalAlpha = 10, !.shadowBlur = 0,
                            !.fillStyle = White]
      /\ exportImage(drawn)
      /\ IF t.rec
         THEN saveToHistory(t.hist, Len(t.hist) - 1, drawn)
         ELSE UNCHANGED hist
      /\ pending' = pending (-) SetToBag({t})
      /\ UNCHANGED <<config, isDrawing, gestureRefs>>

\* An undecodable source: onload never fires and no onerror is installed.
imgError(t) ==
  /\ pending' = pending (-) SetToBag({t})
  /\ calls' = <<>>
  /\ UNCHANGED <<config, ctx, surface, isDrawing, gestureRefs, hist, exported>>

\* ------------------------------------------------------------ undo, redo
\* Variant: the index clamped at 0 instead of the historyStep > 0 guard.
handleUndo_Clamped ==
  LET prevStep == Max(historyStep - 1, 0)
      prevImage == history[prevStep + 1]
  IN  /\ historyStep' = prevStep
      /\ fitAndDrawNewImage(prevImage, FALSE)
      /\ calls' = <<>>
      /\ UNCHANGED <<config, ctx, surface, isDrawing, gestureRefs, history,
                     exported>>

handleUndo ==
  IF historyStep > 0
  THEN LET prevStep == historyStep - 1
           prevImage == history[prevStep + 1]
       IN  /\ historyStep' = prevStep
           /\ fitAndDrawNewImage(prevImage, FALSE)
           /\ calls' = <<>>
           /\ UNCHANGED <<config, ctx, surface, isDrawing, gestureRefs, history,
                          exported>>
  ELSE /\ calls' = <<>>
       /\ UNCHANGED <<config, ctx, surface, isDrawing, gestureRefs, hist, exported,
                      pending>>

\* Variant: the repaint taken from history[historyStep], not from nextStep.
handleRedo_StaleEntry ==
  IF historyStep < Len(history) - 1
  THEN LET nextStep == historyStep + 1
           nextImage == history[historyStep + 1]
       IN  /\ historyStep' = nextStep
           /\ fitAndDrawNewImage(nextImage, FALSE)
           /\ calls' = <<>>
           /\ UNCHANGED <<config, ctx, surface, isDrawing, gestureRefs, history,
                          exported>>
  ELSE /\ calls' = <<>>
       /\ UNCHANGED <<config, ctx, surface, isDrawing, gestureRefs, hist, exported,
                      pending>>

handleRedo ==
  IF historyStep < Len(history) - 1
  THEN LET nextStep == historyStep + 1
           nextImage == history[nextStep + 1]
       IN  /\ historyStep' = nextStep
           /\ fitAndDrawNewImage(nextImage, FALSE)
           /\ calls' = <<>>
           /\ UNCHANGED <<config, ctx, surface, isDrawing, gestureRefs, history,
                          exported>>
  ELSE /\ calls' = <<>>
       /\ UNCHANGED <<config, ctx, surface, isDrawing, gestureRefs, hist, exported,
                      pending>>

\* ----------------------------------------------------------------- clear
\* Variant: the blank picture painted through fitAndDrawNewImage instead of
\* fillRect, so that the clear completes in a load callback.
clearCanvas_ViaLoad ==
  /\ fitAndDrawNewImage(ToDataURL(FillWhite(surface)), TRUE)
  /\ lastExportedRef' = Null
  /\ calls' = <<Null>>
  /\ lastOut' = Null
  /\ UNCHANGED <<config, ctx, surface, isDrawing, gestureRefs, hist>>

clearCanvas ==
  LET c == [ctx EXCEPT !.fillStyle = White]
  IN  /\ surface' = FillRect(surface, c)
      /\ ctx' = [c EXCEPT !.globalAlpha = 10, !.shadowBlur = 0]
      /\ lastExportedRef' = Null
      /\ calls' = <<Null>>
      /\ lastOut' = Null
      /\ saveToHistory(history, historyStep, FillRect(surface, c))
      /\ UNCHANGED <<config, isDrawing, gestureRefs, pending>>

\* --------------------------------------------------------------- effects
\* useEffect(..., [canvasSize]), lines 82-98, run on the canvas as React
\* left it (surf).
canvasSizeEffect(surf, c) ==
  IF Truthy(lastExportedRef)
  THEN /\ fitAndDrawNewImage(WithPrefix(lastExportedRef), FALSE)
       /\ surface' = surf
       /\ ctx' = c
  ELSE /\ surface' = FillRect(surf, [c EXCEPT !.fillStyle = White])
       /\ ctx' = [c EXCEPT !.fillStyle = White]
       /\ UNCHANGED pending

SizesOf(full) == IF full THEN FullSizes ELSE {NormalSize}

\* handleResize, lines 63-72, followed by the re-render with the new
\* canvasSize object and the canvasSize effect.
handleResize(full, size) ==
  /\ size \in SizesOf(full)
  /\ canvasSize' = size
  /\ canvasSizeEffect(ResizeCanvas(surface, size),
                      ResizeCtx(ctx, surface, size))
  /\ calls' = <<>>
  /\ UNCHANGED <<nCells, allowDrawing, initialImage, tool, smoothing, brush,
                 isDrawing, gestureRefs, hist, exported>>

\* toggleFullScreen, lines 467-469, and the [isFullScreen] effect, line 75.
toggleFullScreen(size) ==
  /\ isFullScreen' = ~isFullScreen
  /\ handleResize(~isFullScreen, size)

\* window 'resize' listener, line 77.
windowResize(size) ==
  /\ UNCHANGED isFullScreen
  /\ handleResize(isFullScreen, size)

\* Variant: the comparison with lastExportedRef.current left out.
initialImageEffect_NoCompare(v) ==
  /\ initialImage' = v
  /\ IF Truthy(v)
     THEN LET src == IF StartsWithData(v) THEN v ELSE WithPrefix(v)
          IN  /\ fitAndDrawNewImage(src, TRUE)
              /\ lastExportedRef' = v
     ELSE UNCHANGED <<pending, lastExportedRef>>
  /\ calls' = <<>>
  /\ UNCHANGED <<nCells, allowDrawing, tool, smoothing, brush, isFullScreen,
                 canvasSize, surface, ctx, isDrawing, gestureRefs, hist,
                 lastOut>>

\* useEffect(..., [initialImage]), lines 178-185, after the parent passed v.
initialImageEffect(v) ==
  /\ initialImage' = v
  /\ IF Truthy(v) /\ v # lastExportedRef
     THEN LET src == IF StartsWithData(v) THEN v ELSE WithPrefix(v)
          IN  /\ fitAndDrawNewImage(src, TRUE)
              /\ lastExportedRef' = v
     ELSE UNCHANGED <<pending, lastExportedRef>>
  /\ calls' = <<>>
  /\ UNCHANGED <<nCells, allowDrawing, tool, smoothing, brush, isFullScreen,
                 canvasSize, surface, ctx, isDrawing, gestureRefs, hist,
                 lastOut>>

\* --------------------------------------------------------------- toolbar
setTool(t) ==
  /\ tool' = t
  /\ calls' = <<>>
  /\ UNCHANGED <<nCells, allowDrawing, initialImage, smoothing, brush,
                 isFullScreen, canvasSize, surface, ctx, isDrawing,
                 gestureRefs, hist, exported, pending>>

\* setBrushStyle, setBrushShape, setBrushSize and setBrushColor as the
\* toolbar buttons call them (lines 581-602, 614-628, 641, 659-670).
setBrush(color, size, style, shape) ==
  /\ brushColor' = color
  /\ brushSize' = size
  /\ brushStyle' = style
  /\ brushShape' = shape
  /\ calls' = <<>>
  /\ UNCHANGED <<nCells, allowDrawing, initialImage, tool, smoothing,
                 isFullScreen, canvasSize, surface, ctx, isDrawing,
                 gestureRefs, hist, exported, pending>>

setBrushStyle(s) == setBrush(brushColor, brushSize, s, brushShape)

setBrushShape(s) == setBrush(brushColor, brushSize, brushStyle, s)

setBrushSize(n) == setBrush(brushColor, n, brushStyle, brushShape)

setBrushColor(c) == setBrush(c, brushSize, brushStyle, brushShape)

\* ----------------------------------------------------------------- mount
\* The state once the mount effects (lines 46-59, 62-79, 82-98, 178-185) and
\* the re-render they cause have run.  The initialImage effect belongs to
\* the first render, whose history is [] and historyStep -1; the canvasSize
\* effect runs again in the second render because handleResize stored a new
\* canvasSize object, and by then lastExportedRef holds the initial image.
NoScript == [phase |-> "act", acts |-> 0, undos |-> 0, redos |-> 0,
             final |-> NullSnap, at |-> NullPt]

MountPending(img) ==
  IF Truthy(img)
  THEN SetToBag({Task("decode",
                      IF StartsWithData(img) THEN img ELSE WithPrefix(img),
                      TRUE, <<>>, -1)})
       (+) SetToBag({Task("decode", WithPrefix(img), FALSE, <<>>, -1)})
  ELSE EmptyBag

\* The component mounted at resolution n, with or without an initialImage
\* prop, the brush being the one given.
MountState(n, allow, withImage, color, size, style, shape) ==
  /\ nCells = n
  /\ allowDrawing = allow
  /\ initialImage = (IF withImage THEN Str(0, ExtImg) ELSE Null)
  /\ brushColor = color
  /\ brushSize = size
  /\ tool = "pen"
  /\ brushStyle = style
  /\ smoothing = TRUE
  /\ brushShape = shape
  /\ isFullScreen = FALSE
  /\ canvasSize = NormalSize
  /\ surface = Blank(NormalSize)
  /\ ctx = [DefaultCtx EXCEPT !.fillStyle = White]
  /\ isDrawing = FALSE
  /\ lastPointRef = NullPt
  /\ lastMidPointRef = NullPt
  /\ startPointRef = NullPt
  /\ snapshotRef = NullSnap
  /\ history = <<ToDataURL(Blank(NormalSize))>>
  /\ historyStep = 0
  /\ lastExportedRef = initialImage
  /\ pending = MountPending(initialImage)
  /\ calls = <<>>
  /\ lastOut = Null
  /\ ev = "mount"

MountedWith(n, allow, withImage, color, size, style, shape) ==
  /\ MountState(n, allow, withImage, color, size, style, shape)
  /\ script = NoScript

\* The brush of lines 20-25.
Mounted(n, allow, withImage) ==
  MountedWith(n, allow, withImage, Red, 4, "solid", "round")

\* Mounted without an initial image, drawing enabled or not.
Init == \E allow \in BOOLEAN : Mounted(1, allow, FALSE)

\* Mounted with or without an initial image.
InitEnv == \E allow \in BOOLEAN, withImage \in BOOLEAN : Mounted(1, allow, withImage)

\* --------------------------------------------------------------- actions
\* Canvas bindings, lines 694-703.
PointerDown ==
  /\ \E c \in Cells : startDrawing(Pt(c))
  /\ ev' = "pointerDown"

PointerMoveAt(x) ==
  /\ draw(x)
  /\ ev' = "pointerMove"

PointerMove == \E c \in Cells : PointerMoveAt(Pt(c))

PointerUpIn(h) ==
  /\ isDrawing => CanRecordIn(h, historyStep)
  /\ stopDrawing
  /\ ev' = "pointerUp"

PointerUp == PointerUpIn(MaxHist)

PointerLeaveIn(h) ==
  /\ isDrawing => CanRecordIn(h, historyStep)
  /\ stopDrawing
  /\ ev' = "pointerLeave"

PointerLeave == PointerLeaveIn(MaxHist)

\* The undo and redo buttons are rendered only when allowDrawing (line 495).
UndoIn(p) ==
  /\ allowDrawing
  /\ historyStep > 0 => CanSpawnIn(p)
  /\ handleUndo
  /\ ev' = "undo"

Undo == UndoIn(MaxPending)

Redo ==
  /\ allowDrawing
  /\ historyStep < Len(history) - 1 => CanSpawn
  /\ handleRedo
  /\ ev' = "redo"

ClearIn(h) ==
  /\ CanRecordIn(h, historyStep)
  /\ clearCanvas
  /\ ev' = "clear"

Clear == ClearIn(MaxHist)

UploadIn(p, h) ==
  /\ \/ /\ CanSpawnIn(p)
        /\ CanRecordIn(h, historyStep)
        /\ \E f \in Files : handleUpload(f)
     \/ handleUploadNoFile
  /\ ev' = "upload"

Upload == UploadIn(MaxPending, MaxHist)

ReaderOnload ==
  /\ \E t \in Tasks : t.kind = "read" /\ readerOnload(t)
  /\ ev' = "readerOnload"

ImgOnload ==
  /\ \E t \in Tasks : t.kind = "decode" /\ Decodable(t.src) /\ imgOnload(t)
  /\ ev' = "imgOnload"

ImgError ==
  /\ \E t \in Tasks : t.kind = "decode" /\ ~Decodable(t.src) /\ imgError(t)
  /\ ev' = "imgError"

ToggleFullScreen ==
  /\ Truthy(lastExportedRef) => CanSpawn
  /\ \E size \in FullSizes \cup {NormalSize} : toggleFullScreen(size)
  /\ ev' = "toggleFullScreen"

WindowResize ==
  /\ Truthy(lastExportedRef) => CanSpawn
  /\ \E size \in FullSizes \cup {NormalSize} : windowResize(size)
  /\ ev' = "windowResize"

\* The parent re-renders with another initialImage: a picture of its own, or
\* the value the component last handed to onImageChange.
SetInitialImage ==
  /\ \E v \in PropImages \cup {Null, lastOut} :
        /\ v # initialImage
        /\ (Truthy(v) /\ v # lastExportedRef) =>
              (CanSpawn /\ CanRecord(historyStep))
        /\ initialImageEffect(v)
  /\ ev' = "initialImage"

SetToolIn(T) ==
  /\ allowDrawing
  /\ \E t \in T : t # tool /\ setTool(t)
  /\ ev' = "setTool"

SetTool == SetToolIn(ToolType)

\* The style and colour groups are rendered only while the tool is not the
\* eraser (lines 580, 655); the whole toolbar only with allowDrawing.
SetBrushStyle ==
  /\ allowDrawing /\ tool # "eraser"
  /\ \E s \in BrushStyle : s # brushStyle /\ setBrushStyle(s)
  /\ ev' = "setBrushStyle"

SetBrushShape ==
  /\ allowDrawing
  /\ \E s \in BrushShape : s # brushShape /\ setBrushShape(s)
  /\ ev' = "setBrushShape"

SetBrushSize ==
  /\ allowDrawing
  /\ \E n \in BrushSizes : n # brushSize /\ setBrushSize(n)
  /\ ev' = "setBrushSize"

SetBrushColor ==
  /\ allowDrawing /\ tool # "eraser"
  /\ \E c \in BrushColors : c # brushColor /\ setBrushColor(c)
  /\ ev' = "setBrushColor"

\* A step of the component outside the round-trip scenario.
Plain(A) == A /\ UNCHANGED script

\* The drawing core: gestures with the pen, the eraser and a shape tool (at
\* the one-cell resolution of Init the four shapes cover the same cell), undo,
\* redo, clear, upload and the load callbacks.
Next ==
  \/ Plain(PointerDown)
  \/ Plain(PointerMove)
  \/ Plain(PointerUp)
  \/ Plain(PointerLeave)
  \/ Plain(SetToolIn({"pen", "eraser", "rectangle"}))
  \/ Plain(Undo)
  \/ Plain(Redo)
  \/ Plain(Clear)
  \/ Plain(Upload)
  \/ Plain(ReaderOnload)
  \/ Plain(ImgOnload)
  \/ Plain(ImgError)

Spec == Init /\ [][Next]_vars

\* The component in its environment: the core with the pen, plus resizes of
\* the backing store and initialImage updates from the parent.
NextEnv ==
  \/ Plain(PointerDown)
  \/ Plain(PointerMove)
  \/ Plain(PointerUp)
  \/ Plain(PointerLeave)
  \/ Plain(Undo)
  \/ Plain(Redo)
  \/ Plain(Clear)
  \/ Plain(Upload)
  \/ Plain(ReaderOnload)
  \/ Plain(ImgOnload)
  \/ Plain(ImgError)
  \/ Plain(ToggleFullScreen)
  \/ Plain(WindowResize)
  \/ Plain(SetInitialImage)

SpecEnv == InitEnv /\ [][NextEnv]_vars

\* ------------------------------------------------ the round-trip scenario
\* N <= MaxHist completed user actions from the blank state, then undo() N
\* times, then redo() N times, each undo() and redo() called once the repaint
\* of the previous one has been loaded.  script counts the actions and the
\* calls and keeps the surface the N actions left.
Completes ==
  \/ ev' \in {"pointerUp", "pointerLeave"} /\ isDrawing
  \/ ev' = "clear"
  \/ ev' = "imgOnload"

Quiet == ~isDrawing /\ pending = EmptyBag

Acting(A) ==
  /\ script.phase = "act"
  /\ A
  /\ script' = [script EXCEPT !.acts = IF Completes THEN @ + 1 ELSE @]
  /\ script'.acts <= MaxHist

SeqUndo ==
  /\ script.phase \in {"act", "undo"}
  /\ script.acts >= 1
  /\ script.undos < script.acts
  /\ Quiet
  /\ Undo
  /\ script' = [script EXCEPT !.phase = "undo", !.undos = @ + 1,
                              !.final = IF script.phase = "act"
                                        THEN surface ELSE @]

SeqRedo ==
  /\ script.phase \in {"undo", "redo"}
  /\ script.undos = script.acts
  /\ script.redos < script.acts
  /\ Quiet
  /\ Redo
  /\ script' = [script EXCEPT !.phase = "redo", !.redos = @ + 1]

SeqLoad ==
  /\ script.phase \in {"undo", "redo"}
  /\ ImgOnload
  /\ UNCHANGED script

InitSeq ==
  /\ Mounted(1, TRUE, FALSE)

NextSeq ==
  \/ Acting(PointerDown)
  \/ Acting(PointerMove)
  \/ Acting(PointerUpIn(MaxHist + 1))
  \/ Acting(PointerLeaveIn(MaxHist + 1))
  \/ Acting(SetTool)
  \/ Acting(ClearIn(MaxHist + 1))
  \/ Acting(UploadIn(MaxPending, MaxHist + 1))
  \/ Acting(ReaderOnload)
  \/ Acting(ImgOnload)
  \/ Acting(ImgError)
  \/ SeqUndo
  \/ SeqRedo
  \/ SeqLoad

SpecSeq == InitSeq /\ [][NextSeq]_vars

\* ------------------------------------------------------- overtaken loads
\* Strokes, undo and uploads with room for one more entry and one more load
\* in flight, so that an undo can run between the start of an upload and the
\* load of its image.
NextRace ==
  \/ Plain(PointerDown)
  \/ Plain(PointerUpIn(MaxHist + 1))
  \/ Plain(UndoIn(MaxPending + 1))
  \/ Plain(UploadIn(MaxPending + 1, MaxHist + 1))
  \/ Plain(ReaderOnload)
  \/ Plain(ImgOnload)
  \/ Plain(ImgError)

SpecRace == InitSeq /\ [][NextRace]_vars

\* The brush at work: gestures with every style, the toolbar used between
\* and during gestures, and the operations that fill
\* the surface (clear, a resize event and the reload it starts).
NextBrush ==
  \/ Plain(PointerDown)
  \/ Plain(PointerMove)
  \/ Plain(PointerUp)
  \/ Plain(SetToolIn({"pen", "eraser", "rectangle"}))
  \/ Plain(SetBrushStyle)
  \/ Plain(ClearIn(MaxHist + 1))
  \/ Plain(WindowResize)
  \/ Plain(ImgOnload)

SpecBrush == InitSeq /\ [][NextBrush]_vars

\* Shape gestures on a surface of three cells, the shape tool chosen from
\* the toolbar at any time.  script.at is the position of the latest
\* pointer-move that drew a preview in the gesture under way (NullPt when
\* the gesture has none).
ShapeTools == ToolType \ {"pen", "eraser"}

Previews == isDrawing /\ allowDrawing /\ tool \in ShapeTools /\ snapshotRef # NullSnap

InitShape ==
  /\ Mounted(3, TRUE, FALSE)

ShapeDown == PointerDown /\ script' = [script EXCEPT !.at = NullPt]

ShapeMove ==
  \E c \in Cells :
     /\ PointerMoveAt(Pt(c))
     /\ script' = [script EXCEPT !.at = IF Previews THEN Pt(c) ELSE NullPt]

NextShape ==
  \/ ShapeDown
  \/ ShapeMove
  \/ Plain(PointerUpIn(MaxHist + 1))
  \/ Plain(PointerLeaveIn(MaxHist + 1))
  \/ Plain(SetToolIn(ShapeTools))

SpecShape == InitShape /\ [][NextShape]_vars

\* The eraser next to the pen and a shape tool: the component mounted and a brush picked from
\* the toolbar before the first gesture, then gestures during and between
\* which the tool, the tip, the size and the colour are changed.
InitErase ==
  \E color \in BrushColors, size \in BrushSizes,
     style \in BrushStyle, shape \in BrushShape :
        MountedWith(1, TRUE, FALSE, color, size, style, shape)

NextErase ==
  \/ Plain(PointerDown)
  \/ Plain(PointerMove)
  \/ Plain(PointerUp)
  \/ Plain(SetToolIn({"pen", "eraser", "rectangle"}))
  \/ Plain(SetBrushShape)
  \/ Plain(SetBrushSize)
  \/ Plain(SetBrushColor)

SpecErase == InitErase /\ [][NextErase]_vars

\* The placement computed for sources and surfaces of several sizes; script
\* holds the case and, once drawImage has been reached, its placement.
SourceDims == {1, 2, 3, 500, 1000}
SurfaceDims == {1, 2, 512}
NoPlace == [sn |-> 0, sd |-> 0, dw |-> 0, dh |-> 0, x |-> 0, y |-> 0]

InitFit ==
  /\ MountState(1, TRUE, FALSE, Red, 4, "solid", "round")
  /\ \E w \in SourceDims, h \in SourceDims, W \in SurfaceDims, H \in SurfaceDims :
        script = [w |-> w, h |-> h, W |-> W, H |-> H, place |-> NoPlace]

Places ==
  /\ script.place = NoPlace
  /\ script' = [script EXCEPT !.place = FitPlace(script.w, script.h,
                                                 script.W, script.H)]
  /\ UNCHANGED <<config, ctx, surface, isDrawing, gestureRefs, hist,
                 exported, pending, calls, ev>>

NextFit == Places

SpecFit == InitFit /\ [][NextFit]_vars

\* Diamond stamping along a drag, lines 296-330, in exact arithmetic on one
\* axis.  Positions and the brush size are kept doubled, as the pointer
\* coordinates are.  For a segment whose end points are c apart the code
\* takes steps = Math.max(dist / (brushSize / 4), 1), here the fraction
\* N / D, and stamps at t = i / steps for i = 0 .. L, L the integer part of
\* steps.
Abs(n) == IF n >= 0 THEN n ELSE -n

StampSteps(c, S) == IF 4 * c <= S THEN <<1, 1>> ELSE <<4 * c, S>>

\* The largest distance between two consecutive stamps of the segment (the
\* quadratic from m0 to m1 with control point cp when smoothing, the straight
\* line from cp to m1 otherwise), and the distance from its last stamp to
\* the segment's end, where the next segment puts its first stamp; both as
\* numerators over N * N.
StampGaps(smooth, m0, cp, m1, S) ==
  LET from == IF smooth THEN m0 ELSE cp
      st == StampSteps(Abs(m1 - from), S)
      N == st[1]
      D == st[2]
      L == N \div D
      lin == 2 * (cp - m0)
      quad == m0 - 2 * cp + m1
      within(i) == IF smooth
                   THEN Abs(D * N * lin + (2 * i + 1) * D * D * quad)
                   ELSE Abs(m1 - from) * D * N
      tail == IF smooth
              THEN Abs((N - L * D) * (N * lin + (N + L * D) * quad))
              ELSE Abs(m1 - from) * (N - L * D) * N
      worst == CHOOSE g \in {within(i) : i \in 0 .. L - 1} :
                 \A i \in 0 .. L - 1 : within(i) <= g
  IN  [N |-> N, D |-> D, within |-> worst, tail |-> tail]

\* Drags of up to MaxMoves pointer-moves after the pointer-down, with the
\* diamond tip and the pen; script holds the brush size, the smoothing
\* switch, the two refs that the stamping code reads and writes, and the
\* gaps of the latest segment.
MaxMoves == 2
RawPoints == {Pt(c) : c \in 0 .. 6}
StampSizes == {1, 2, 4, 8, 16, 24, 48}
NoGaps == [N |-> 1, D |-> 1, within |-> 0, tail |-> 0]

InitStamp ==
  /\ MountState(1, TRUE, FALSE, Red, 4, "solid", "diamond")
  /\ \E size \in StampSizes, smooth \in BOOLEAN, x \in RawPoints :
        script = [size |-> size, smoothing |-> smooth, lastPoint |-> x,
                  lastMid |-> x, moves |-> 0, gaps |-> NoGaps]

StampMove ==
  /\ script.moves < MaxMoves
  /\ \E x \in RawPoints :
        LET midPoint == IF script.smoothing
                        THEN (script.lastPoint + x) \div 2
                        ELSE x
        IN  script' = [script EXCEPT
                         !.gaps = StampGaps(script.smoothing, script.lastMid,
                                            script.lastPoint, midPoint,
                                            2 * script.size),
                         !.lastPoint = x,
                         !.lastMid = midPoint,
                         !.moves = @ + 1]
  /\ UNCHANGED <<config, ctx, surface, isDrawing, gestureRefs, hist,
                 exported, pending, calls, ev>>

NextStamp == StampMove

SpecStamp == InitStamp /\ [][NextStamp]_vars

\* The path of a shape preview, lines 375-401, on two axes.  Coordinates are
\* kept doubled so that w / 2 and h / 2 are exact.  A path is its corner
\* points in drawing order (rect(sx, sy, w, h) starts at (sx, sy) and goes
\* along the width first), or the centre and radii of an ellipse.
GridPoints == {<<Pt(a), Pt(b)>> : a, b \in 0 .. 2}
NoPath == [kind |-> "none", pts |-> <<>>, centre |-> <<0, 0>>, rx |-> 0,
           ry |-> 0]

shapePath(t, s, p) ==
  LET sx == s[1]
      sy == s[2]
      w == p[1] - sx
      h == p[2] - sy
  IN  CASE t = "line" ->
             [NoPath EXCEPT !.kind = "open", !.pts = <<s, p>>]
        [] t = "rectangle" ->
             [NoPath EXCEPT !.kind = "closed",
                            !.pts = <<s, <<sx + w, sy>>, <<sx + w, sy + h>>,
                                      <<sx, sy + h>>>>]
        [] t = "circle" ->
             [NoPath EXCEPT !.kind = "ellipse",
                            !.centre = <<sx + w \div 2, sy + h \div 2>>,
                            !.rx = Abs(w \div 2),
                            !.ry = Abs(h \div 2)]
        [] t = "triangle" ->
             [NoPath EXCEPT !.kind = "closed",
                            !.pts = <<(<<sx + w \div 2, sy>>), <<sx, sy + h>>,
                                      <<sx + w, sy + h>>>>]
        [] OTHER -> NoPath

\* A shape drag: script holds the start point taken at pointer-down, the
\* current point and the path of the latest preview.
InitGeom ==
  /\ MountState(1, TRUE, FALSE, Red, 4, "solid", "round")
  /\ \E t \in ShapeTools, s \in GridPoints :
        script = [tool |-> t, start |-> s, at |-> s, path |-> NoPath]

GeomMove ==
  /\ \E p \in GridPoints :
        script' = [script EXCEPT !.at = p,
                                 !.path = shapePath(script.tool,
                                                    script.start, p)]
  /\ UNCHANGED <<config, ctx, surface, isDrawing, gestureRefs, hist,
                 exported, pending, calls, ev>>

GeomTool ==
  /\ \E t \in ShapeTools :
        script' = [script EXCEPT !.tool = t, !.path = NoPath]
  /\ UNCHANGED <<config, ctx, surface, isDrawing, gestureRefs, hist,
                 exported, pending, calls, ev>>

NextGeom == GeomMove \/ GeomTool

SpecGeom == InitGeom /\ [][NextGeom]_vars

\* Pointer coordinates, lines 240-248 and 284-288, as exact fractions
\* <<numerator, denominator>>: scale = canvas.width / rect.width, then
\* (client - rect origin) * scale, one axis at a time.
\* Variant: the display offset taken as it is, without the scale.
normalize_Unscaled(client, origin, backing, shown) ==
  <<client - origin, 1>>

normalize(client, origin, backing, shown) ==
  LET scale == <<backing, shown>>
  IN  <<(client - origin) * scale[1], scale[2]>>

pointOf(e, canvas, rect) ==
  [x |-> normalize(e[1], rect.left, canvas.width, rect.width),
   y |-> normalize(e[2], rect.top, canvas.height, rect.height)]

\* The canvas with its backing size and its on-screen rectangle, and mouse
\* events at client positions inside and outside that rectangle; script
\* holds them with the points taken by pointer-down and by pointer-move.
BackingSizes == {2, 4}
RectOrigins == {0, 1}
RectSizes == {1, 2, 4}
ClientXs == -1 .. 6
ClientYs == {-1, 1, 6}
NoEvent == <<-9, -9>>
NoPoint == [x |-> <<0, 0>>, y |-> <<0, 0>>]

InitNorm ==
  /\ MountState(1, TRUE, FALSE, Red, 4, "solid", "round")
  /\ \E cw, ch \in BackingSizes, o \in RectOrigins, rw, rh \in RectSizes :
        script = [canvas |-> [width |-> cw, height |-> ch],
                  rect |-> [left |-> o, top |-> o, width |-> rw,
                            height |-> rh],
                  downAt |-> NoEvent, down |-> NoPoint,
                  moveAt |-> NoEvent, move |-> NoPoint]

NormDown ==
  /\ \E e \in ClientXs \X ClientYs :
        script' = [script EXCEPT
                     !.downAt = e,
                     !.down = pointOf(e, script.canvas, script.rect),
                     !.moveAt = NoEvent,
                     !.move = NoPoint]
  /\ UNCHANGED <<config, ctx, surface, isDrawing, gestureRefs, hist,
                 exported, pending, calls, ev>>

NormMove ==
  /\ script.downAt # NoEvent
  /\ \E e \in ClientXs \X ClientYs :
        script' = [script EXCEPT
                     !.moveAt = e,
                     !.move = pointOf(e, script.canvas, script.rect)]
  /\ UNCHANGED <<config, ctx, surface, isDrawing, gestureRefs, hist,
                 exported, pending, calls, ev>>

NextNorm == NormDown \/ NormMove

SpecNorm == InitNorm /\ [][NextNorm]_vars

\* The handlers with their existence checks.  canvasRef.current is null once
\* the component is unmounted; canvas.getContext('2d') gives the same answer
\* for the life of the canvas element, a context or null.  script holds the
\* two facts.
HasCanvas == script.canvas
HasContext == script.canvas /\ script.context

Return ==
  /\ calls' = <<>>
  /\ UNCHANGED <<config, ctx, surface, isDrawing, gestureRefs, hist, exported,
                 pending>>

\* Lines 232-237 and 278-282.
canvasStartDrawing(x) == IF HasContext THEN startDrawing(x) ELSE Return

canvasDraw(x) == IF HasContext THEN draw(x) ELSE Return

\* Lines 407-426: the context reset is inside the two checks, exportImage
\* (line 442) and saveToHistory (line 103) check the canvas only, the rest
\* is unconditional.
canvasStopDrawing ==
  IF ~isDrawing \/ HasContext
  THEN stopDrawing
  ELSE /\ isDrawing' = FALSE
       /\ IF HasCanvas
          THEN /\ exportImage(surface)
               /\ saveToHistory(history, historyStep, surface)
          ELSE /\ calls' = <<>>
               /\ UNCHANGED <<hist, exported>>
       /\ clearGesture
       /\ UNCHANGED <<config, ctx, surface, pending>>

\* Lines 449-453.
canvasClear == IF HasContext THEN clearCanvas ELSE Return

\* Variant: img.onload without the checks of lines 123-126.
canvasImgOnload_Unchecked(t) == imgOnload(t)

\* img.onload, lines 122-126: the callback returns at a missing canvas or
\* context.
canvasImgOnload(t) ==
  IF HasContext
  THEN imgOnload(t)
  ELSE /\ pending' = pending (-) SetToBag({t})
       /\ calls' = <<>>
       /\ UNCHANGED <<config, ctx, surface, isDrawing, gestureRefs, hist,
                      exported>>

\* Mounted on a canvas that gives no 2d context: the mount effect (lines
\* 46-59) and the canvasSize effect (lines 90-96) skip their bodies, so the
\* canvas stays transparent and the history stays [] with historyStep -1.
MountNoContext ==
  /\ nCells = 1
  /\ allowDrawing = TRUE
  /\ initialImage = Null
  /\ brushColor = Red
  /\ brushSize = 4
  /\ tool = "pen"
  /\ brushStyle = "solid"
  /\ smoothing = TRUE
  /\ brushShape = "round"
  /\ isFullScreen = FALSE
  /\ canvasSize = NormalSize
  /\ surface = [size |-> NormalSize, pic |-> ClearedPic]
  /\ ctx = DefaultCtx
  /\ isDrawing = FALSE
  /\ lastPointRef = NullPt
  /\ lastMidPointRef = NullPt
  /\ startPointRef = NullPt
  /\ snapshotRef = NullSnap
  /\ history = <<>>
  /\ historyStep = -1
  /\ lastExportedRef = Null
  /\ pending = EmptyBag
  /\ calls = <<>>
  /\ lastOut = Null
  /\ ev = "mount"

InitMissing ==
  \/ /\ MountState(1, TRUE, FALSE, Red, 4, "solid", "round")
     /\ script = [canvas |-> TRUE, context |-> TRUE]
  \/ /\ MountNoContext
     /\ script = [canvas |-> TRUE, context |-> FALSE]

\* The component is removed: React sets canvasRef.current to null.  Loads
\* in flight still complete afterwards.
Unmount ==
  /\ HasCanvas
  /\ script' = [script EXCEPT !.canvas = FALSE]
  /\ ev' = "unmount"
  /\ Return

CanvasDown ==
  /\ \E c \in Cells : canvasStartDrawing(Pt(c))
  /\ ev' = "pointerDown"
  /\ UNCHANGED script

CanvasMove ==
  /\ \E c \in Cells : canvasDraw(Pt(c))
  /\ ev' = "pointerMove"
  /\ UNCHANGED script

CanvasUp ==
  /\ (isDrawing /\ HasCanvas) => CanRecord(historyStep)
  /\ canvasStopDrawing
  /\ ev' = "pointerUp"
  /\ UNCHANGED script

CanvasClear ==
  /\ HasContext => CanRecord(historyStep)
  /\ canvasClear
  /\ ev' = "clear"
  /\ UNCHANGED script

CanvasUpload ==
  /\ HasCanvas
  /\ CanSpawn
  /\ HasContext => CanRecord(historyStep)
  /\ handleUpload(ExtImg)
  /\ ev' = "upload"
  /\ UNCHANGED script

CanvasImgOnload ==
  /\ \E t \in Tasks : t.kind = "decode" /\ Decodable(t.src)
                         /\ canvasImgOnload(t)
  /\ ev' = "imgOnload"
  /\ UNCHANGED script

NextMissing ==
  \/ Unmount
  \/ CanvasDown
  \/ CanvasMove
  \/ CanvasUp
  \/ CanvasClear
  \/ CanvasUpload
  \/ Plain(ReaderOnload)
  \/ CanvasImgOnload

SpecMissing == InitMissing /\ [][NextMissing]_vars

\* ================================================================ claims
\* The load callback of task t ran in the latest step.
LoadOf(t) ==
  /\ ev' = "imgOnload"
  /\ t \in Tasks
  /\ pending' = pending (-) SetToBag({t})

\* The latest step completed a user action: a stroke or shape ended, a clear
\* ran, or the image of an upload (or of an initialImage update) was loaded.
StrokeEnds == ev' \in {"pointerUp", "pointerLeave"} /\ isDrawing
RecordingLoad == \E t \in Tasks : t.rec /\ LoadOf(t)
CompletedAction == StrokeEnds \/ ev' = "clear" \/ RecordingLoad

\* C1: when a completed action records an entry while the cursor is not at
\* the tail, the new history is the old one up to and including the cursor
\* followed by the new snapshot (every entry after the cursor is gone), and
\* the cursor is at the tail, where redo() does nothing.
C1_BranchPruning ==
  [][(CompletedAction /\ historyStep < Len(history) - 1) =>
        /\ history' = Append(SubSeq(history, 1, historyStep + 1),
                             ToDataURL(surface'))
        /\ historyStep' = Len(history') - 1]_vars

\* C2: after N completed actions from the blank state and N calls of undo()
\* the surface is blank, and after N calls of redo() more it is the surface
\* the N actions left.
C2_RoundTrip ==
  /\ (script.phase = "undo" /\ script.undos = script.acts /\ Quiet)
        => surface = Blank(canvasSize)
  /\ (script.phase = "redo" /\ script.redos = script.acts /\ Quiet)
        => surface = script.final

C2_Witness ==
  /\ script.phase = "redo"
  /\ script.acts = MaxHist
  /\ script.redos = script.acts
  /\ Quiet
  /\ Len(history) = MaxHist + 1
  /\ surface = script.final
  /\ surface # Blank(canvasSize)

\* C3: the history is never empty and the cursor is an index into it.
C3_CursorInHistory ==
  /\ Len(history) >= 1
  /\ 0 <= historyStep
  /\ historyStep <= Len(history) - 1

C3_Witness ==
  /\ ev = "imgOnload"
  /\ canvasSize \in FullSizes
  /\ Len(history) = MaxHist
  /\ historyStep = 0
  /\ Truthy(initialImage)

\* C4: entry 0 of the history is the snapshot of the blank surface taken at
\* mount, in every state.
C4_BlankStaysFirst == history[1] = ToDataURL(Blank(NormalSize))

\* C5: a completed action leaves a history one longer than the part up to
\* the cursor it found (cursor + 2 entries), with the cursor on the new tail
\* and the new tail the snapshot of the surface the action left.
C5_OneEntryPerAction ==
  [][CompletedAction =>
        /\ Len(history') = historyStep + 2
        /\ historyStep' = Len(history') - 1
        /\ history'[Len(history')] = ToDataURL(surface')]_vars

PointerEvents == {"pointerDown", "pointerMove", "pointerUp", "pointerLeave"}

\* C6: pointer-down starts a gesture without exporting or recording; a move
\* inside a gesture keeps it active without exporting or recording; pointer-up
\* and pointer-leave inside a gesture both end it, export the surface once and
\* record one entry on top of the cursor; pointer-up, pointer-leave and
\* pointer-move outside a gesture change nothing.
C6_GestureMachine ==
  [][/\ (ev' = "pointerDown" /\ allowDrawing) =>
           (isDrawing' /\ calls' = <<>> /\ UNCHANGED <<hist, exported>>)
     /\ (ev' = "pointerMove" /\ isDrawing) =>
           (isDrawing' /\ calls' = <<>> /\ UNCHANGED <<hist, exported>>)
     /\ StrokeEnds =>
           /\ ~isDrawing'
           /\ surface' = surface
           /\ calls' = <<ExportedValue(surface)>>
           /\ lastExportedRef' = ExportedValue(surface)
           /\ history' = Append(SubSeq(history, 1, historyStep + 1),
                                ToDataURL(surface))
           /\ historyStep' = historyStep + 1
           /\ gestureRefs' = <<NullPt, NullPt, NullPt, NullSnap>>
     /\ (ev' \in {"pointerUp", "pointerLeave", "pointerMove"} /\ ~isDrawing) =>
           (calls' = <<>> /\ UNCHANGED <<surface, hist, exported, isDrawing,
                                         gestureRefs, pending>>)]_vars

C6_Witness ==
  /\ ev = "pointerLeave"
  /\ ~isDrawing
  /\ calls = <<ExportedValue(surface)>>
  /\ historyStep = 1
  /\ history[2] = ToDataURL(surface)
  /\ surface # Blank(canvasSize)

\* C7: undo() at cursor 0 and redo() at the tail leave the history, the
\* cursor, the surface and the last-exported reference as they were, start no
\* load and do not call onImageChange.
C7_BoundaryNoOp ==
  [][(\/ ev' = "undo" /\ historyStep = 0
      \/ ev' = "redo" /\ historyStep = Len(history) - 1) =>
        (calls' = <<>> /\ UNCHANGED <<hist, surface, exported, pending>>)]_vars

C7_Witness ==
  /\ ev = "undo"
  /\ historyStep = 0
  /\ pending = EmptyBag
  /\ Len(history) = MaxHist

\* C8: undo() off the boundary moves the cursor back one and redo() forward
\* one; both leave the history as it is and start the load of the entry at
\* the new cursor; when that load completes the surface is that entry's
\* picture and onImageChange is called once with the encoding of the surface,
\* the history and the cursor staying as they are.
C8_UndoRedoStep ==
  [][/\ (ev' = "undo" /\ historyStep > 0) =>
           /\ historyStep' = historyStep - 1
           /\ history' = history
           /\ pending' = pending (+) SetToBag({
                 [kind |-> "decode", src |-> history[historyStep],
                  rec |-> FALSE, hist |-> <<>>]})
     /\ (ev' = "redo" /\ historyStep < Len(history) - 1) =>
           /\ historyStep' = historyStep + 1
           /\ history' = history
           /\ pending' = pending (+) SetToBag({
                 [kind |-> "decode", src |-> history[historyStep + 2],
                  rec |-> FALSE, hist |-> <<>>]})
     /\ \A t \in Tasks : (~t.rec /\ LoadOf(t)) =>
           /\ surface' = t.src.img
           /\ calls' = <<ExportedValue(surface')>>
           /\ UNCHANGED hist]_vars

C8_Witness ==
  /\ ev = "imgOnload"
  /\ pending = EmptyBag
  /\ historyStep < Len(history) - 1
  /\ surface = history[historyStep + 1].img
  /\ surface # history[historyStep + 2].img
  /\ calls = <<ExportedValue(surface)>>

\* C9 as claimed: a callback that runs after its handler returned
\* (reader.onload, img.onload) leaves the surface, the history, the cursor
\* and the exported image as they are.
C9_NoDeferredMutation ==
  [][ev' \in {"readerOnload", "imgOnload", "imgError"} =>
        UNCHANGED <<surface, hist, exported>>]_vars

\* C9 amended: the pointer handlers and clear do all their work before they
\* return and start no load; undo, redo, upload and an initialImage update
\* return without touching the surface, the history or the output callback,
\* and a resize without growing the history or calling the callback; what
\* they start is an image load, and the surface, the history and the output
\* change only in a pointer handler, in clear, in a resize or in the load
\* callback of an image.
C9_DeferredToLoad ==
  [][/\ ev' \in PointerEvents \cup {"clear"} => pending' = pending
     /\ ev' \in {"undo", "redo", "upload", "initialImage", "readerOnload",
                 "imgError"} =>
           (calls' = <<>> /\ UNCHANGED <<surface, history, lastOut>>)
     /\ ev' \in {"toggleFullScreen", "windowResize"} =>
           (calls' = <<>> /\ UNCHANGED <<hist, exported>>)
     /\ (surface' # surface \/ history' # history \/ calls' # <<>>) =>
           ev' \in PointerEvents \cup {"clear", "toggleFullScreen",
                                       "windowResize", "imgOnload"}]_vars

C9_Witness ==
  /\ ev = "imgOnload"
  /\ Truthy(initialImage)
  /\ canvasSize \in FullSizes
  /\ historyStep = MaxHist - 1
  /\ calls = <<ExportedValue(surface)>>
  /\ surface # Blank(canvasSize)

\* C10: with allowDrawing false no gesture is ever active and the four
\* pointer events change nothing; clear and upload act on the surface, the
\* history and the export by the same rule whatever the flag is.
C10_DisabledIgnoresPointer ==
  [][/\ ~allowDrawing => ~isDrawing'
     /\ (~allowDrawing /\ ev' \in PointerEvents) =>
           (calls' = <<>> /\ UNCHANGED <<surface, hist, exported, isDrawing,
                                         gestureRefs, pending>>)
     /\ ev' = "clear" =>
           /\ surface' = Blank(canvasSize)
           /\ calls' = <<Null>>
           /\ lastExportedRef' = Null
           /\ history' = Append(SubSeq(history, 1, historyStep + 1),
                                ToDataURL(surface'))
           /\ historyStep' = historyStep + 1
     /\ ev' = "upload" =>
           \/ pending' = pending
           \/ \E f \in Files : pending' = pending (+) SetToBag({
                 [kind |-> "read", src |-> Str(1, f), rec |-> TRUE,
                  hist |-> SubSeq(history, 1, historyStep + 1)]})
     /\ \A t \in Tasks : (t.rec /\ LoadOf(t)) =>
           /\ surface' = FitAndDraw(t.src.img, canvasSize)
           /\ calls' = <<ExportedValue(surface')>>
           /\ history' = Append(t.hist, ToDataURL(surface'))]_vars

C10_Witness ==
  /\ ~allowDrawing
  /\ ev = "pointerDown"
  /\ ~isDrawing
  /\ Len(history) = MaxHist
  /\ surface # Blank(canvasSize)

C12_ClearContract ==
  [][/\ ev' = "clear" =>
          /\ surface' = Blank(canvasSize)
          /\ lastExportedRef' = Null
          /\ calls' = <<Null>>
          /\ history' = Append(SubSeq(history, 1, historyStep + 1),
                               ToDataURL(Blank(canvasSize)))
          /\ historyStep' = historyStep + 1
     /\ \A i \in 1 .. Len(calls') :
          /\ calls'[i] = Null => ev' = "clear"
          /\ calls'[i] # Null => ~StartsWithData(calls'[i])]_vars

\* A step that changes the backing resolution, and the load it starts.
Resizes == ev' \in {"toggleFullScreen", "windowResize"} /\ canvasSize' # canvasSize
RefitOf(t) == t.kind = "decode" /\ ~t.rec /\ pending' = pending (+) SetToBag({t})

\* C13: a resize of the backing resolution re-fits the content the surface
\* held before it onto the new surface (at once when that is the blank fill,
\* otherwise through one load of exactly that content, which draws it
\* rescaled and uncropped when it completes) and never changes the history
\* or the cursor, neither in the resize nor in the load it started.
C13_ResizeRefits ==
  [][/\ Resizes =>
          /\ UNCHANGED hist
          /\ \/ surface' = FitAndDraw(surface, canvasSize') /\ pending' = pending
             \/ \E t \in BagToSet(pending') :
                   /\ RefitOf(t)
                   /\ Decodable(t.src)
                   /\ t.src.img = surface
     /\ \A t \in Tasks : (LoadOf(t) /\ ~t.rec) =>
          /\ surface' = FitAndDraw(t.src.img, canvasSize)
          /\ UNCHANGED hist]_vars

\* C14: when a gesture that was started with a shape tool and has drawn at
\* least one preview is released, the surface is the pre-gesture snapshot
\* with exactly one primitive on it, the one spanned by the start point and
\* the position of the latest move; nothing of the earlier previews remains.
C14_PreviewNonAccumulation ==
  [][(/\ StrokeEnds
      /\ tool \in ShapeTools
      /\ snapshotRef # NullSnap
      /\ script.at # NullPt) =>
        surface' = [size |-> surface.size,
                    pic  |-> Paint(snapshotRef.pic,
                                   ShapeCells(tool, startPointRef, script.at),
                                   brushColor)]]_vars

\* A second shape gesture has been released: it began on the content of the
\* first (ink in the third cell only), previewed, and left one primitive
\* in the first cell and nothing in the second.
C14_Witness ==
  /\ ev = "pointerUp"
  /\ tool \in ShapeTools
  /\ historyStep = 2
  /\ script.at = Pt(1)
  /\ history[2].img.pic = <<0, 0, Red>>
  /\ surface.pic = <<Red, 0, Red>>

\* A pointer-down or pointer-move that paints with the eraser.
EraserPaints ==
  /\ allowDrawing /\ tool = "eraser"
  /\ \/ ev' = "pointerDown"
     \/ ev' = "pointerMove" /\ isDrawing

\* C15: every paint operation made while the tool is the eraser, the initial
\* dot and every move, whatever the style, tip, size and colour selected and
\* whatever the context held before, is drawn with stroke and fill colour
\* #ffffff at opacity 1.0 and blur 0: each cell it touches becomes plain
\* white, and none takes the brush colour or a translucent deposit.
C15_EraserInvariance ==
  [][EraserPaints =>
        /\ ctx'.globalAlpha = 10
        /\ ctx'.shadowBlur = 0
        /\ ctx'.strokeStyle = White /\ ctx'.fillStyle = White
        /\ ctx'.strokeStyle # brushColor
        /\ \A c \in Cells : surface'.pic[c] \in {White, surface.pic[c]}
        /\ ev' = "pointerDown" => \E c \in Cells : surface'.pic[c] = White]_vars

\* A watercolor stroke in black with the large diamond tip was recorded;
\* the eraser has then painted over it within a gesture.
C15_Witness ==
  /\ ev = "pointerMove" /\ isDrawing /\ tool = "eraser"
  /\ brushStyle = "watercolor" /\ brushShape = "diamond"
  /\ brushSize = 8 /\ brushColor = Black
  /\ historyStep = 1 /\ history[2].img.pic[1] = Soft
  /\ ctx.shadowColor = Black /\ ctx.globalAlpha = 10
  /\ surface.pic[1] = White

\* A step that takes in, or gives up on, an image that cannot be decoded.
BadImageStep ==
  \/ ev' = "initialImage" /\ Truthy(initialImage') /\ initialImage'.img = Garbage
  \/ \E t \in Tasks : /\ pending' = pending (-) SetToBag({t})
                        /\ t.src.img = Garbage
                        /\ ev' \in {"readerOnload", "imgError"}

\* C16: an undecodable uploaded or initial image changes neither the
\* surface, nor the history and its cursor, nor the exported image (the
\* last value handed out and the component's reference to it), and a later
\* resize still reloads decodable content.
C16_BadImageKeepsState ==
  [][/\ BadImageStep => UNCHANGED <<surface, hist, exported>>
     /\ Resizes => \A t \in BagToSet(pending') : RefitOf(t) => Decodable(t.src)]_vars

\* C17: the placement of a w x h source on a W x H surface uses the uniform
\* scale min(W/w, H/h), drawn size (w*s, h*s) and offset ((W - w*s)/2,
\* (H - h*s)/2); the drawn rectangle lies inside the surface, is centred,
\* spans the surface on at least one axis and keeps the source's aspect
\* ratio; a 1000 x 500 source on a 512 x 512 surface gets scale 0.512,
\* drawn size 512 x 256 and offset (0, 128).
C17_FitPlacement ==
  script.place # NoPlace =>
    LET p == script.place
        w == script.w
        h == script.h
        W == script.W
        H == script.H
    IN  /\ p.sn * w <= W * p.sd /\ p.sn * h <= H * p.sd
        /\ p.sn * w = W * p.sd \/ p.sn * h = H * p.sd
        /\ p.dw = w * p.sn /\ p.dh = h * p.sn
        /\ p.x >= 0 /\ p.y >= 0
        /\ p.x + 2 * p.dw <= 2 * W * p.sd /\ p.y + 2 * p.dh <= 2 * H * p.sd
        /\ 2 * p.x + 2 * p.dw = 2 * W * p.sd /\ 2 * p.y + 2 * p.dh = 2 * H * p.sd
        /\ p.dw = W * p.sd \/ p.dh = H * p.sd
        /\ p.dw * h = p.dh * w
        /\ (w = 1000 /\ h = 500 /\ W = 512 /\ H = 512) =>
              /\ 1000 * p.sn = 512 * p.sd
              /\ p.dw = 512 * p.sd /\ p.dh = 256 * p.sd
              /\ p.x = 0 /\ p.y = 128 * 2 * p.sd

\* The 1000 x 500 source has been placed on the 512 x 512 surface.
C17_Witness ==
  /\ script.w = 1000 /\ script.h = 500 /\ script.W = 512 /\ script.H = 512
  /\ script.place # NoPlace
  /\ script.place.y > 0

NoGesture == <<NullPt, NullPt, NullPt, NullSnap>>

\* C19: the gesture record exists only while a gesture is active: whenever no
\* gesture is active the last point, the last midpoint, the start point and
\* the pre-gesture snapshot are all null, during a gesture the three points
\* are set, and the snapshot becomes non-null only in a pointer-down made
\* with a shape tool, so it is non-null only during a gesture started so.
C19_GestureRecord ==
  [][/\ ~isDrawing => gestureRefs = NoGesture
     /\ ~isDrawing' => gestureRefs' = NoGesture
     /\ isDrawing' => /\ lastPointRef' # NullPt
                      /\ lastMidPointRef' # NullPt
                      /\ startPointRef' # NullPt
     /\ (snapshotRef' # NullSnap /\ snapshotRef' # snapshotRef) =>
           /\ ev' = "pointerDown"
           /\ tool \in ShapeTools
           /\ isDrawing'
           /\ snapshotRef' = surface]_vars

\* A gesture made with a shape tool has been released and recorded, and the
\* record is gone.
C19_Witness ==
  /\ ev = "pointerUp" /\ ~isDrawing
  /\ tool = "rectangle"
  /\ historyStep = 1
  /\ surface.pic[1] = Red
  /\ gestureRefs = NoGesture

\* What a paint operation is rendered with: colour, opacity, blur, line
\* width and tip as the context holds them after it.
Rendering(c) ==
  <<c.strokeStyle, c.fillStyle, c.globalAlpha, c.shadowBlur, c.lineWidth,
    c.lineCap>>

\* C20: every pointer-move of a pen or eraser gesture is rendered as the
\* paint before it in that gesture was, hence as the gesture's pointer-down
\* was: with the tool, tip, style, size and colour selected at pointer-down,
\* also when a toolbar selection changes during the gesture.
C20_ConfigFixedInGesture ==
  [][(/\ ev' = "pointerMove"
      /\ isDrawing /\ allowDrawing
      /\ tool \in {"pen", "eraser"}) =>
        Rendering(ctx') = Rendering(ctx)]_vars

\* The cell of the pointer-down point of the gesture just started.
DownCells == SegCells(startPointRef', startPointRef')

\* The history entry at the cursor.
Current == history[historyStep + 1]

PenPaints ==
  /\ allowDrawing /\ tool = "pen"
  /\ \/ ev' = "pointerDown"
     \/ ev' = "pointerMove" /\ isDrawing

ShapePaints == ev' = "pointerMove" /\ Previews /\ startPointRef # NullPt

\* The claim's table: opacity in tenths, blur in halves of a pixel.
StyleOpacity ==
  CASE brushStyle = "solid" -> 10
    [] brushStyle = "pencil" -> 7
    [] brushStyle = "watercolor" -> 4
    [] brushStyle = "water" -> 9

StyleBlur ==
  CASE brushStyle = "solid" -> 0
    [] brushStyle = "pencil" -> 1
    [] brushStyle = "watercolor" -> brushSize
    [] brushStyle = "water" -> 2

\* C22: every paint made with the pen or with a shape tool uses the brush
\* colour at the opacity and blur of the selected style: solid (1.0, 0),
\* pencil (0.7, 0.5), watercolor (0.4, brushSize / 2), gouache (0.9, 1); a
\* shape is stroked as a path of width brushSize with those parameters, on
\* the pre-gesture snapshot, also when the diamond tip is selected.
C22_StyleParameters ==
  [][/\ (PenPaints \/ ShapePaints) =>
          /\ ctx'.globalAlpha = StyleOpacity
          /\ ctx'.shadowBlur = StyleBlur
          /\ ctx'.strokeStyle = brushColor
     /\ ShapePaints =>
          /\ ctx'.lineWidth = brushSize
          /\ ctx'.lineCap = IF brushShape = "square" THEN "square" ELSE "round"
          /\ \E c \in Cells :
                surface'.pic =
                  Paint(snapshotRef.pic,
                        ShapeCells(tool, startPointRef, Pt(c)),
                        IF brushStyle = "solid" THEN brushColor ELSE Soft)]_vars

\* A shape has been previewed in watercolor with the large diamond tip.
C22_Witness ==
  /\ ev = "pointerMove" /\ isDrawing
  /\ tool = "rectangle" /\ snapshotRef # NullSnap
  /\ brushStyle = "watercolor" /\ brushShape = "diamond" /\ brushSize = 8
  /\ ctx.globalAlpha = 4 /\ ctx.shadowBlur = 8 /\ ctx.lineWidth = 8
  /\ surface.pic[1] = Soft

\* C23: for every drag with the diamond tip and the pen, smoothing on or
\* off, at every brush size, the step count of a segment is
\* max(distance / (size / 4), 1), and neither the distance between two
\* consecutive stamps of a segment nor the distance from a segment's last
\* stamp to the first stamp of the next exceeds one brush size.
C23_StampContinuity ==
  LET g == script.gaps
  IN  /\ g.within <= 2 * script.size * g.N * g.N
      /\ g.tail <= 2 * script.size * g.N * g.N

\* The bounding box of the start point and the current point of a shape drag.
BoxOf(s, p) ==
  [left |-> Min(s[1], p[1]), right |-> Max(s[1], p[1]),
   top |-> Min(s[2], p[2]), bottom |-> Max(s[2], p[2])]

Range(f) == {f[i] : i \in DOMAIN f}

\* C24: whatever the direction of the drag, the rectangle is the box
\* spanning the start and the current point, the ellipse is centred on the
\* centre of that box with half its width and height as radii, and the
\* triangle has its apex at the middle of the box's top edge and its base
\* corners at the box's two bottom corners.
C24_ShapeGeometry ==
  LET b == BoxOf(script.start, script.at)
      path == script.path
  IN  /\ (path # NoPath /\ script.tool = "rectangle") =>
             Range(path.pts) = {b.left, b.right} \X {b.top, b.bottom}
      /\ (path # NoPath /\ script.tool = "circle") =>
             /\ path.centre = <<(b.left + b.right) \div 2,
                                (b.top + b.bottom) \div 2>>
             /\ path.rx = (b.right - b.left) \div 2
             /\ path.ry = (b.bottom - b.top) \div 2
      /\ (path # NoPath /\ script.tool = "triangle") =>
             /\ path.pts[1] = <<(b.left + b.right) \div 2, b.top>>
             /\ {path.pts[2], path.pts[3]} = {b.left, b.right} \X {b.bottom}

\* The fraction q is the display offset (client - origin) scaled by
\* backing / shown.
ScaledOffset(q, client, origin, backing, shown) ==
  /\ q[2] # 0
  /\ q[1] * shown = (client - origin) * backing * q[2]

IsGesturePoint(pt, e) ==
  /\ ScaledOffset(pt.x, e[1], script.rect.left, script.canvas.width,
                  script.rect.width)
  /\ ScaledOffset(pt.y, e[2], script.rect.top, script.canvas.height,
                  script.rect.height)

Outside(e) ==
  \/ e[1] < script.rect.left
  \/ e[1] > script.rect.left + script.rect.width
  \/ e[2] < script.rect.top
  \/ e[2] > script.rect.top + script.rect.height

\* C25: the point of every pointer-down and of every pointer-move is the
\* offset of the event in the canvas's on-screen rectangle, scaled on each
\* axis by backing size over displayed size; the two handlers give the same
\* point for the same event; the point is the plain offset on an axis whose
\* displayed size is the backing size; and there is a point for positions
\* outside the rectangle too.
C25_InputNormalization ==
  /\ script.downAt # NoEvent => IsGesturePoint(script.down, script.downAt)
  /\ script.moveAt # NoEvent => IsGesturePoint(script.move, script.moveAt)
  /\ (script.moveAt # NoEvent /\ script.moveAt = script.downAt) =>
        script.move = script.down
  /\ (script.downAt # NoEvent /\ script.rect.width = script.canvas.width) =>
        script.down.x[1] = (script.downAt[1] - script.rect.left)
                             * script.down.x[2]
  /\ (script.moveAt # NoEvent /\ script.rect.height = script.canvas.height)
        => script.move.y[1] = (script.moveAt[2] - script.rect.top)
                                * script.move.y[2]

C25_Witness ==
  /\ script.canvas = [width |-> 4, height |-> 2]
  /\ script.rect = [left |-> 1, top |-> 1, width |-> 2, height |-> 2]
  /\ script.downAt = <<2, 1>>
  /\ script.down = [x |-> <<4, 2>>, y |-> <<0, 2>>]
  /\ script.moveAt = <<6, -1>>
  /\ Outside(script.moveAt)
  /\ script.move = [x |-> <<20, 2>>, y |-> <<-4, 2>>]

\* The operations that touch the canvas.
CanvasOperations == {"pointerDown", "pointerMove", "pointerUp", "clear",
                     "imgOnload"}

\* C26: when the canvas or its 2d context is missing, a pointer-down, a
\* pointer-move, the end of a gesture, a clear and the completion of a load
\* (with the export and the history record they would make) change neither
\* the history, the cursor nor the last-exported reference and do not call
\* the output callback.
C26_MissingCanvasNoOp ==
  [][(~HasContext /\ ev' \in CanvasOperations) =>
        /\ UNCHANGED <<history, historyStep, lastExportedRef, lastOut>>
        /\ calls' = <<>>]_vars

C26_Witness ==
  /\ ~HasCanvas
  /\ ev = "imgOnload"
  /\ pending = EmptyBag
  /\ Len(history) = 2
  /\ historyStep = 1
  /\ lastExportedRef = ExportedValue(surface)
  /\ lastOut = lastExportedRef

\* The surface shows the picture of entry e, as it is or re-fitted to the
\* surface's size.
Shows(surf, e) == surf \in {e.img, FitAndDraw(e.img, surf.size)}

\* C27: whenever no gesture is active and no load is in flight, the surface
\* shows the history entry at the cursor (up to re-fitting), whatever was
\* done between a click and the completion of the load it started.
C27_SurfaceMatchesCursor ==
  (~isDrawing /\ pending = EmptyBag /\ historyStep >= 0) =>
     Shows(surface, Current)

\* The entries up to and including the cursor.
Kept == SubSeq(history, 1, historyStep + 1)

\* C28: no step loses a recorded entry other than by pruning the branch
\* after the cursor: whenever the history changes, the entries up to the
\* cursor stay and one entry is put on top of them; in particular a load
\* that records does so on top of the history as it is when the load
\* completes.
C28_NoStaleOverwrite ==
  [][/\ history' # history =>
          /\ Len(history') = Len(Kept) + 1
          /\ SubSeq(history', 1, Len(Kept)) = Kept
     /\ RecordingLoad =>
          history' = NewHistory(history, historyStep, surface')]_vars

\* No gesture is active and nothing has been exported since the last clear
\* (or since the mount).
NothingExported == ~isDrawing /\ lastExportedRef = Null

C30_RefIsLastOutput ==
  /\ lastExportedRef = lastOut
  /\ Truthy(lastExportedRef) => ~StartsWithData(lastExportedRef)
====
